---- MODULE Spec2Model ----
(***************************************************************************)
(* ChatOutput (src/chatoutput.py): the normalisation of an input value to  *)
(* plain text (convert_to_string, _serialize_data, _validate_input) and    *)
(* the construction of the chat message (message_response, _build_source). *)
(*                                                                         *)
(* Text is a sequence of one-character strings, so that strip, join and    *)
(* the "key: value" rendering are computed and not assumed.                *)
(***************************************************************************)
EXTENDS Integers, Sequences, FiniteSets, TLC

VARIABLES
    input_value,    \* self.input_value
    opts,           \* the component's option values and ambient context
    heap,           \* the message entities: id -> fields, or NoEntity
    stream_pos,     \* chunks already pulled from the Generator input
    pc,             \* position in convert_to_string / message_response
    parts,          \* what safe_convert returned for the items of a List input
    outcome,        \* what convert_to_string did: error, value, branch, calls
    text,           \* message_response local: text
    icon,           \* message_response local: icon
    message,        \* message_response local: message (an entity id, 0 = unbound)
    assigned,       \* the fields message_response has assigned on the entity
    persist_calls,  \* number of send_message calls made
    persist_arg,    \* the entity handed to send_message: its id, its fields then
    persist_result, \* the entity send_message returned: its id, its fields then
    message_value,  \* self.message.value (0 = unset)
    status,         \* self.status (0 = unset)
    returned        \* the value message_response returned (0 = nothing)

vars == <<input_value, opts, heap, stream_pos, pc, parts, outcome, text, icon, message,
          assigned, persist_calls, persist_arg, persist_result, message_value,
          status, returned>>

----------------------------------------------------------------------------
(* Bounds of the model *)

\* longest Text input or Message text
MaxTextLen == 2
\* longest Text item of a List input
MaxItemLen == 1
\* longest List input
MaxItems == 2
\* longest string value of a Record payload entry
MaxValLen == 1
\* most entries of a Record payload
MaxEntries == 2

----------------------------------------------------------------------------
(* Text *)

\* the characters input text is made of
Chars == {" ", "a"}

\* the characters str.strip() removes
Whitespace == {" ", "\n"}

Strings(n) == UNION {[1..k -> Chars] : k \in 0..n}

RECURSIVE LStrip(_)
LStrip(s) ==
    IF s = <<>> THEN s
    ELSE IF Head(s) \in Whitespace THEN LStrip(Tail(s)) ELSE s

RECURSIVE RStrip(_)
RStrip(s) ==
    IF s = <<>> THEN s
    ELSE IF s[Len(s)] \in Whitespace THEN RStrip(SubSeq(s, 1, Len(s) - 1)) ELSE s

\* str.strip()
Strip(s) == RStrip(LStrip(s))

RECURSIVE Join(_, _)
\* sep.join(strs)
Join(strs, sep) ==
    IF strs = <<>> THEN <<>>
    ELSE IF Len(strs) = 1 THEN strs[1]
    ELSE strs[1] \o sep \o Join(Tail(strs), sep)

----------------------------------------------------------------------------
(* Values *)

\* a Python value that is None, a str, or a reference to the input Generator
NoneV == [tag |-> "none", s |-> <<>>]
StrV(s) == [tag |-> "str", s |-> s]
StreamV == [tag |-> "stream", s |-> <<>>]

\* A payload value: None, a str, a dict/list ("container") or any other object.
\* s is what str(v) yields and r what repr(v) yields, when they do not raise.
PayloadValues ==
    {[vk |-> "none", s |-> <<>>, r |-> <<>>, strRaises |-> FALSE, reprRaises |-> FALSE]}
    \cup {[vk |-> "str", s |-> x, r |-> <<"'">> \o x \o <<"'">>,
           strRaises |-> FALSE, reprRaises |-> FALSE] : x \in Strings(MaxValLen)}
    \cup {[vk |-> "container", s |-> <<"[", "]">>, r |-> <<"[", "]">>,
           strRaises |-> a, reprRaises |-> b] : a \in BOOLEAN, b \in BOOLEAN}
    \cup {[vk |-> "object", s |-> <<"7">>, r |-> <<"<", "7", ">">>,
           strRaises |-> a, reprRaises |-> FALSE] : a \in BOOLEAN}

\* the keys of a payload
PayloadKeys == {<<"a">>, <<"b">>, <<" ", "c">>}

\* a dict payload: its items in insertion order, keys distinct
Payloads ==
    UNION {{p \in [1..n -> [k : PayloadKeys, v : PayloadValues]] :
              \A i \in 1..n : \A j \in 1..n : i # j => p[i].k # p[j].k}
           : n \in 0..MaxEntries}

----------------------------------------------------------------------------
(* Input values *)

\* the tabular handle an attribute of a DataFrame input holds: none, a falsy
\* one, one whose preview renders, one whose preview raises
Handles == {"absent", "falsy", "ok", "broken"}

\* the chunks of the Generator input
StreamChunks == <<<<"a">>, <<" ">>>>

NoneInput == [kind |-> "None"]
OtherInputs == {[kind |-> "Other", type |-> t] : t \in {"int", "dict"}}
TextInput(s) == [kind |-> "str", s |-> s]
ListInput(items) == [kind |-> "list", items |-> items]
GeneratorInput == [kind |-> "Generator", chunks |-> StreamChunks]
MessageInput(t) == [kind |-> "Message", text0 |-> t]
DataFrameInput(d, v) == [kind |-> "DataFrame", df |-> d, value |-> v]
DataInput(value, isdict, payload, strRaises) ==
    [kind |-> "Data", value |-> value, isdict |-> isdict, payload |-> payload,
     strRaises |-> strRaises, str |-> <<"D", " ">>]

\* the payload of the record-normalisation example: a: "x", b: "", c: null, d: "y"
ExampleValue(vk, s) ==
    [vk |-> vk, s |-> s, r |-> s, strRaises |-> FALSE, reprRaises |-> FALSE]

ExamplePayload ==
    << [k |-> <<"a">>, v |-> ExampleValue("str", <<"x">>)],
       [k |-> <<"b">>, v |-> ExampleValue("str", <<>>)],
       [k |-> <<"c">>, v |-> ExampleValue("none", <<>>)],
       [k |-> <<"d">>, v |-> ExampleValue("str", <<"y">>)] >>

Lists == UNION {[1..n -> Strings(MaxItemLen)] : n \in 0..MaxItems}

DataInputs ==
    \* a direct string value (the payload is then not looked at)
    {DataInput(StrV(s), d, <<>>, FALSE) : s \in Strings(MaxValLen), d \in BOOLEAN}
    \* no string value, a dict payload
    \cup {DataInput(NoneV, TRUE, p, FALSE) : p \in Payloads \cup {ExamplePayload}}
    \* no string value, no dict payload
    \cup {DataInput(NoneV, FALSE, <<>>, b) : b \in BOOLEAN}

MessageTexts == {NoneV} \cup {StrV(s) : s \in Strings(MaxTextLen)}

AllInputs ==
    {NoneInput} \cup OtherInputs
    \cup {TextInput(s) : s \in Strings(MaxTextLen)}
    \cup {ListInput(l) : l \in Lists}
    \cup {GeneratorInput}
    \cup DataInputs
    \cup {MessageInput(t) : t \in MessageTexts}
    \cup {DataFrameInput(d, v) : d \in Handles, v \in Handles}

----------------------------------------------------------------------------
(* The normaliser *)

\* isinstance(self.input_value, valid_types)
valid_types == {"Message", "Data", "DataFrame", "str", "list", "Generator", "None"}

\* a validation that forgets the isinstance test of line 187
_validate_input_NoneOnly(iv) == IF iv.kind = "None" THEN "ValueError" ELSE "none"

\* _validate_input: the exception it raises, or "none"
_validate_input(iv) ==
    IF iv.kind = "None" THEN "ValueError"
    ELSE IF iv.kind \notin valid_types THEN "TypeError"
    ELSE "none"

\* the v_str of one payload value (lines 166-172), or a raise
Render(v) ==
    IF v.vk = "container"
    THEN IF ~v.strRaises THEN [raised |-> FALSE, s |-> v.s]
         ELSE IF ~v.reprRaises THEN [raised |-> FALSE, s |-> v.r]
         ELSE [raised |-> TRUE, s |-> <<>>]
    ELSE IF ~v.strRaises THEN [raised |-> FALSE, s |-> v.s]
         ELSE [raised |-> TRUE, s |-> <<>>]

\* a test that forgets the empty string
SkipEntry_NoneOnly(v) == v.vk = "none"

\* the test of line 164: v is None or v == ""
SkipEntry(v) == v.vk = "none" \/ (v.vk = "str" /\ v.s = <<>>)

RECURSIVE PayloadLoop(_, _, _)
\* the loop of lines 162-173 from entry i on, lines being those appended so far
PayloadLoop(payload, i, lines) ==
    IF i > Len(payload) THEN [raised |-> FALSE, lines |-> lines]
    ELSE IF SkipEntry(payload[i].v) THEN PayloadLoop(payload, i + 1, lines)
    ELSE LET r == Render(payload[i].v)
         IN IF r.raised THEN [raised |-> TRUE, lines |-> lines]
            ELSE PayloadLoop(payload, i + 1,
                             Append(lines, payload[i].k \o <<":", " ">> \o r.s))

\* _serialize_data
_serialize_data(data) ==
    IF data.value.tag = "str" THEN [err |-> "none", s |-> Strip(data.value.s)]
    ELSE IF data.isdict
    THEN LET l == PayloadLoop(data.payload, 1, <<>>)
         IN IF l.raised THEN [err |-> "Exception", s |-> <<>>]
            ELSE [err |-> "none",
                  s |-> IF l.lines # <<>> THEN Strip(Join(l.lines, <<"\n">>)) ELSE <<>>]
    ELSE IF data.strRaises THEN [err |-> "none", s |-> <<>>]
    ELSE [err |-> "none", s |-> Strip(data.str)]

\* what safe_convert may return for the items of a List input: for each Text
\* item its text, or None
SafeConvertResults(iv) ==
    IF iv.kind = "list"
    THEN {p \in [1..Len(iv.items) -> {NoneV} \cup {StrV(s) : s \in Strings(MaxItemLen)}] :
            \A i \in 1..Len(iv.items) : p[i] \in {NoneV, StrV(iv.items[i])}}
    ELSE {<<>>}

RECURSIVE ListLines_Truthy(_)
\* p.strip() for p in parts if p
ListLines_Truthy(ps) ==
    IF ps = <<>> THEN <<>>
    ELSE IF Head(ps) # NoneV /\ Head(ps).s # <<>>
         THEN <<Strip(Head(ps).s)>> \o ListLines_Truthy(Tail(ps))
         ELSE ListLines_Truthy(Tail(ps))

RECURSIVE ListLines(_)
\* p.strip() for p in parts if p is not None
ListLines(ps) ==
    IF ps = <<>> THEN <<>>
    ELSE IF Head(ps) # NoneV
         THEN <<Strip(Head(ps).s)>> \o ListLines(Tail(ps))
         ELSE ListLines(Tail(ps))

\* the result of convert_to_string
Result(err, val, branch, conv) ==
    [err |-> err, val |-> val, branch |-> branch, conv |-> conv, pulled |-> 0]

\* the DataFrame branch (lines 209-216)
DataFrameText(iv) ==
    LET df_obj == IF iv.df \in {"ok", "broken"} THEN iv.df ELSE iv.value
    IN IF df_obj # "absent"
       THEN IF df_obj = "broken" THEN <<"H">> ELSE <<"P">>
       ELSE <<"F">>

\* lines 194-198
ListBranch(iv, ps) ==
    Result("none", StrV(Join(ListLines(ps), <<"\n">>)), "list", Len(iv.items))

RECURSIVE Concat(_)
Concat(chunks) == IF chunks = <<>> THEN <<>> ELSE Head(chunks) \o Concat(Tail(chunks))

\* a normaliser that drains the stream into a string
GeneratorBranch_Drain(iv) ==
    [Result("none", StrV(Concat(iv.chunks)), "Generator", 0)
        EXCEPT !.pulled = Len(iv.chunks)]

\* lines 200-201
GeneratorBranch(iv) == Result("none", StreamV, "Generator", 0)

\* lines 203-204
DataBranch(iv) ==
    LET r == _serialize_data(iv)
    IN Result(r.err, IF r.err = "none" THEN StrV(r.s) ELSE NoneV, "Data", 0)

\* lines 206-207
MessageBranch(iv) ==
    Result("none", StrV(Strip(IF iv.text0.tag = "str" THEN iv.text0.s ELSE <<>>)),
           "Message", 0)

\* lines 218-219
TextBranch(iv) == Result("none", StrV(Strip(iv.s)), "str", 0)

\* convert_to_string, ps being what safe_convert returns for the items
convert_to_string(iv, ps) ==
    IF _validate_input(iv) # "none"
    THEN Result(_validate_input(iv), NoneV, "none", 0)
    ELSE IF iv.kind = "list" THEN ListBranch(iv, ps)
    ELSE IF iv.kind = "Generator" THEN GeneratorBranch(iv)
    ELSE IF iv.kind = "Data" THEN DataBranch(iv)
    ELSE IF iv.kind = "Message" THEN MessageBranch(iv)
    ELSE IF iv.kind = "DataFrame" THEN Result("none", StrV(DataFrameText(iv)), "DataFrame", 0)
    ELSE IF iv.kind = "str" THEN TextBranch(iv)
    \* line 221: safe_convert on anything else
    ELSE Result("none", NoneV, "safe_convert", 1)

----------------------------------------------------------------------------
(* The component's options and the message entities *)

\* the upstream component's properties (get_properties_from_source_component):
\* source is the model-identity object, by the attribute _build_source reads
SourceProperties ==
    [source : {"none", "model_name", "model", "plain"}, icon : {"src-icon"},
     display_name : {"", "X"}, source_id : {"", "id1"}]

\* the option values of a component whose build is followed through persistence
BuildOptions ==
    [session_id : {"", "s1"}, should_store_message : BOOLEAN,
     sender : {"Machine", "User"}, sender_name : {"AI"},
     chat_icon : {"", "bot"}, background_color : {"#000"}, text_color : {"#fff"},
     clean_data : BOOLEAN, has_graph : BOOLEAN, properties : SourceProperties]

\* the option defaults of lines 38-97, but for clean_data and the stored session
DefaultOptions ==
    [session_id : {"s1"}, should_store_message : {TRUE},
     sender : {"Machine"}, sender_name : {"AI"},
     chat_icon : {""}, background_color : {""}, text_color : {""},
     clean_data : BOOLEAN, has_graph : {TRUE},
     properties : [source : {"model_name"}, icon : {"src-icon"},
                   display_name : {"X"}, source_id : {""}]]

\* the inputs a build is followed on under every combination of options
BuildInputs ==
    {NoneInput, [kind |-> "Other", type |-> "int"],
     TextInput(<<" ", "a">>), ListInput(<<<<"a">>, <<>>>>), GeneratorInput,
     DataInput(NoneV, TRUE, ExamplePayload, FALSE),
     MessageInput(StrV(<<"a", " ">>)), MessageInput(NoneV),
     DataFrameInput("absent", "ok")}

\* the entity ids: the input Message, the one Message(text=text) constructs,
\* the one send_message may return
InputEntity == 1
FreshEntity == 2
StoredEntity == 3
EntityIds == {InputEntity, FreshEntity, StoredEntity}

NoEntity == [exists |-> FALSE]
NoCall == [id |-> 0, fields |-> NoEntity]
NoSource == [id |-> "", display_name |-> "", source |-> ""]

Entity(t, sender, sender_name, session_id, flow_id, source, ic, bg, fg) ==
    [exists |-> TRUE, text |-> t, sender |-> sender, sender_name |-> sender_name,
     session_id |-> session_id, flow_id |-> flow_id, source |-> source,
     icon |-> ic, background_color |-> bg, text_color |-> fg]

\* the Message the caller passes in, before the call
InputMessage(t) == Entity(t, "User", "caller", "s0", "f0", NoSource, "i0", "b0", "t0")

\* Message(text=text): the fields at their defaults
NewMessage(t) == Entity(t, "", "", "", "", NoSource, "", "", "")

\* the entities that exist before the call
InitialHeap(iv) ==
    [e \in EntityIds |->
        IF e = InputEntity /\ iv.kind = "Message" THEN InputMessage(iv.text0)
        ELSE NoEntity]

\* the fields message_response assigns on the working entity
AllFields == {"text", "sender", "sender_name", "session_id", "flow_id", "source",
              "icon", "background_color", "text_color"}

\* _build_source: an absent field is "" here
_build_source(id_, display_name, source) ==
    [id |-> id_,
     display_name |-> display_name,
     source |-> IF source = "none" THEN ""
                ELSE IF source = "model_name" THEN "m"
                ELSE IF source = "model" THEN "str(model)"
                ELSE "str(source)"]

\* a condition that persists when either holds
ShouldPersist_Either(o) == o.session_id # "" \/ o.should_store_message

\* the condition of line 147
ShouldPersist(o) == o.session_id # "" /\ o.should_store_message

\* a binding that always constructs an entity
WorkingEntity_AlwaysFresh(iv) == FreshEntity

\* lines 132-136: the entity message is bound to
WorkingEntity(iv) == IF iv.kind = "Message" THEN InputEntity ELSE FreshEntity

\* a return that keeps the entity handed to send_message
ReturnedEntity_Pre(pre, stored_message) == pre

\* lines 150, 153: what message_response returns after send_message returned
ReturnedEntity(pre, stored_message) == stored_message

----------------------------------------------------------------------------
(* The state machine *)

NoOutcome == [err |-> "none", val |-> NoneV, branch |-> "none", conv |-> 0, pulled |-> 0]

Init ==
    /\ \/ input_value \in AllInputs /\ opts \in DefaultOptions
       \/ input_value \in BuildInputs /\ opts \in BuildOptions
    /\ heap = InitialHeap(input_value)
    /\ stream_pos = 0
    /\ pc = "idle"
    /\ parts = <<>>
    /\ outcome = NoOutcome
    /\ text = NoneV
    /\ icon = ""
    /\ message = 0
    /\ assigned = {}
    /\ persist_calls = 0
    /\ persist_arg = NoCall
    /\ persist_result = NoCall
    /\ message_value = 0
    /\ status = 0
    /\ returned = 0

\* a call of convert_to_string on its own
ConvertToString ==
    /\ pc = "idle"
    /\ parts' \in SafeConvertResults(input_value)
    /\ outcome' = convert_to_string(input_value, parts')
    /\ stream_pos' = stream_pos + outcome'.pulled
    /\ pc' = "converted"
    /\ UNCHANGED <<input_value, opts, heap, text, icon, message, assigned,
                   persist_calls, persist_arg, persist_result, message_value,
                   status, returned>>

\* message_response, lines 124-130: the text and the source properties
Normalize ==
    /\ pc = "idle"
    /\ parts' \in SafeConvertResults(input_value)
    /\ outcome' = convert_to_string(input_value, parts')
    /\ stream_pos' = stream_pos + outcome'.pulled
    /\ IF outcome'.err # "none"
       THEN /\ pc' = "raised"
            /\ UNCHANGED <<text, icon>>
       ELSE /\ pc' = "normalized"
            /\ text' = outcome'.val
            /\ icon' = IF opts.chat_icon # "" THEN opts.chat_icon
                       ELSE opts.properties.icon
    /\ UNCHANGED <<input_value, opts, heap, message, assigned, persist_calls,
                   persist_arg, persist_result, message_value, status, returned>>

\* lines 132-136: reuse the input Message, or construct one
BindEntity ==
    /\ pc = "normalized"
    /\ message' = WorkingEntity(input_value)
    /\ heap' = [heap EXCEPT ![message'] =
                  IF message' = InputEntity THEN [heap[InputEntity] EXCEPT !.text = text]
                  ELSE NewMessage(text)]
    /\ assigned' = {"text"}
    /\ pc' = "bound"
    /\ UNCHANGED <<input_value, opts, stream_pos, parts, outcome, text, icon, persist_calls,
                   persist_arg, persist_result, message_value, status, returned>>

\* lines 138-141
SetIdentity ==
    /\ pc = "bound"
    /\ heap' = [heap EXCEPT ![message] =
                  [@ EXCEPT !.sender = opts.sender,
                            !.sender_name = opts.sender_name,
                            !.session_id = opts.session_id,
                            !.flow_id = IF opts.has_graph THEN "flow1" ELSE ""]]
    /\ assigned' = assigned \cup {"sender", "sender_name", "session_id", "flow_id"}
    /\ pc' = "identified"
    /\ UNCHANGED <<input_value, opts, stream_pos, parts, outcome, text, icon, message,
                   persist_calls, persist_arg, persist_result, message_value,
                   status, returned>>

\* lines 142-145
SetProperties ==
    /\ pc = "identified"
    /\ heap' = [heap EXCEPT ![message] =
                  [@ EXCEPT !.source = _build_source(opts.properties.source_id,
                                                     opts.properties.display_name,
                                                     opts.properties.source),
                            !.icon = icon,
                            !.background_color = opts.background_color,
                            !.text_color = opts.text_color]]
    /\ assigned' = assigned \cup {"source", "icon", "background_color", "text_color"}
    /\ pc' = "populated"
    /\ UNCHANGED <<input_value, opts, stream_pos, parts, outcome, text, icon, message,
                   persist_calls, persist_arg, persist_result, message_value,
                   status, returned>>

\* a build that calls send_message before the properties are set
CallPersist_Early ==
    /\ pc = "identified"
    /\ ShouldPersist(opts)
    /\ persist_calls' = persist_calls + 1
    /\ persist_arg' = [id |-> message, fields |-> heap[message]]
    /\ pc' = "awaiting"
    /\ UNCHANGED <<input_value, opts, heap, stream_pos, parts, outcome, text, icon,
                   message, assigned, persist_result, message_value, status, returned>>

\* lines 147-148: send_message is called and message_response is suspended
CallPersist ==
    /\ pc = "populated"
    /\ ShouldPersist(opts)
    /\ persist_calls' = persist_calls + 1
    /\ persist_arg' = [id |-> message, fields |-> heap[message]]
    /\ pc' = "awaiting"
    /\ UNCHANGED <<input_value, opts, heap, stream_pos, parts, outcome, text, icon, message,
                   assigned, persist_result, message_value, status, returned>>

\* line 147, the condition false
SkipPersist ==
    /\ pc = "populated"
    /\ ~ShouldPersist(opts)
    /\ pc' = "ready"
    /\ UNCHANGED <<input_value, opts, heap, stream_pos, parts, outcome, text, icon, message,
                   assigned, persist_calls, persist_arg, persist_result,
                   message_value, status, returned>>

\* lines 148-150: send_message returns the entity it was given, or another one
\* holding the same fields
PersistReturn ==
    /\ pc = "awaiting"
    /\ \E stored_message \in {message, StoredEntity} :
          /\ heap' = [heap EXCEPT ![stored_message] = heap[message]]
          /\ persist_result' = [id |-> stored_message, fields |-> heap'[stored_message]]
          /\ message_value' = stored_message
          /\ message' = ReturnedEntity(message, stored_message)
    /\ pc' = "ready"
    /\ UNCHANGED <<input_value, opts, stream_pos, parts, outcome, text, icon, assigned,
                   persist_calls, persist_arg, status, returned>>

\* a failure path that still publishes the working entity as the status
PersistFail_SetsStatus ==
    /\ pc = "awaiting"
    /\ pc' = "failed"
    /\ status' = message
    /\ UNCHANGED <<input_value, opts, heap, stream_pos, parts, outcome, text, icon,
                   message, assigned, persist_calls, persist_arg, persist_result,
                   message_value, returned>>

\* line 148: send_message raises, and the exception leaves message_response
PersistFail ==
    /\ pc = "awaiting"
    /\ pc' = "failed"
    /\ UNCHANGED <<input_value, opts, heap, stream_pos, parts, outcome, text, icon, message,
                   assigned, persist_calls, persist_arg, persist_result,
                   message_value, status, returned>>

\* line 148: the caller cancels the suspended message_response
Abandon ==
    /\ pc = "awaiting"
    /\ pc' = "abandoned"
    /\ UNCHANGED <<input_value, opts, heap, stream_pos, parts, outcome, text, icon, message,
                   assigned, persist_calls, persist_arg, persist_result,
                   message_value, status, returned>>

\* lines 152-153
Finish ==
    /\ pc = "ready"
    /\ status' = message
    /\ returned' = message
    /\ pc' = "done"
    /\ UNCHANGED <<input_value, opts, heap, stream_pos, parts, outcome, text, icon, message,
                   assigned, persist_calls, persist_arg, persist_result,
                   message_value>>

Next ==
    \/ ConvertToString
    \/ Normalize
    \/ BindEntity
    \/ SetIdentity
    \/ SetProperties
    \/ CallPersist
    \/ SkipPersist
    \/ PersistReturn
    \/ PersistFail
    \/ Abandon
    \/ Finish

Spec == Init /\ [][Next]_vars

----------------------------------------------------------------------------
(* What the claims are stated with *)

\* t is s without its leading and trailing whitespace
IsTrimOf(t, s) ==
    /\ t = <<>> \/ (t[1] \notin Whitespace /\ t[Len(t)] \notin Whitespace)
    /\ \E i \in 0..Len(s) : \E j \in i..Len(s) :
          /\ SubSeq(s, i + 1, j) = t
          /\ \A n \in 1..i : s[n] \in Whitespace
          /\ \A n \in (j + 1)..Len(s) : s[n] \in Whitespace

\* the lines of s: the pieces between its newline characters
SplitLines(s) ==
    LET cuts == <<0>> \o SelectSeq([i \in 1..Len(s) |-> IF s[i] = "\n" THEN i ELSE 0],
                                   LAMBDA i : i # 0) \o <<Len(s) + 1>>
    IN [n \in 1..(Len(cuts) - 1) |-> SubSeq(s, cuts[n] + 1, cuts[n + 1] - 1)]

\* the lines joined by newline, built from the last line backwards
RECURSIVE JoinedLines(_)
JoinedLines(ls) ==
    IF ls = <<>> THEN <<>>
    ELSE IF Len(ls) = 1 THEN ls[1]
    ELSE JoinedLines(SubSeq(ls, 1, Len(ls) - 1)) \o <<"\n">> \o ls[Len(ls)]

\* convert_to_string has run, on its own or as the first step of message_response
Converted == pc # "idle"

\* message_response stopped at the suspended send_message without a result
PersistAborted == pc \in {"failed", "abandoned"}

\* the input entity as the caller handed it in
InputEntityBefore == InitialHeap(input_value)[InputEntity]

\* the input is a Record with no direct string value and a payload mapping
IsPayloadRecord ==
    /\ input_value.kind = "Data"
    /\ input_value.value.tag # "str"
    /\ input_value.isdict

\* the entry's value is neither null nor the empty string
Qualifies(e) == ~(e.v.vk = "none") /\ ~(e.v.vk = "str" /\ e.v.s = <<>>)

\* the value has a text: str(v) works, or v is nested and its debug form works
HasText(v) == ~v.strRaises \/ (v.vk = "container" /\ ~v.reprRaises)

\* the "{key}: {stringifiedValue}" lines of the qualifying entries, in key order
EntryLines(payload) ==
    LET q == SelectSeq(payload, Qualifies)
    IN [i \in 1..Len(q) |->
          q[i].k \o <<":", " ">> \o (IF q[i].v.strRaises THEN q[i].v.r ELSE q[i].v.s)]

----------------------------------------------------------------------------
(* C1 *)

\* C1: a build in which should_store_message is false or session_id is empty
\* makes no send_message call, whatever the input and the other options.
C1_NoPersistWithoutStoreAndSession ==
    (~opts.should_store_message \/ opts.session_id = "") => persist_calls = 0

C1_Witness ==
    /\ pc = "done"
    /\ opts.should_store_message
    /\ opts.session_id = ""
    /\ persist_calls = 0

(* C2 *)

\* C2: a finished build with should_store_message true and a non-empty
\* session_id, in which send_message returned an entity other than the one it
\* was given, returns the entity send_message returned.
C2_ReturnsPersistedEntity ==
    (/\ pc = "done"
     /\ opts.should_store_message
     /\ opts.session_id # ""
     /\ persist_result.id # persist_arg.id)
    => (returned = persist_result.id /\ returned # persist_arg.id)

C2_Witness ==
    /\ pc = "done"
    /\ persist_arg.id = InputEntity
    /\ persist_result.id = StoredEntity
    /\ returned = StoredEntity

(* C3 *)

KeptParts(Keep(_)) == SelectSeq(parts, Keep)

ListResultIs(kept) ==
    /\ outcome.err = "none"
    /\ outcome.val.tag = "str"
    /\ IF kept = <<>> THEN outcome.val.s = <<>>
       ELSE /\ Len(SplitLines(outcome.val.s)) = Len(kept)
            /\ \A i \in 1..Len(kept) : IsTrimOf(SplitLines(outcome.val.s)[i], kept[i].s)

\* C4 as stated: for a non-empty List of Text items the result is the trimmed
\* items joined by newline in order, the items converted to null or to the empty
\* string having no line.
C4_Original_ListDropsNullAndEmpty ==
    (Converted /\ input_value.kind = "list" /\ input_value.items # <<>>)
    => ListResultIs(KeptParts(LAMBDA q : q # NoneV /\ q.s # <<>>))

\* C4 as amended: for a non-empty List of Text items the result is the trimmed
\* items joined by newline in order, the items converted to null having no line;
\* an item converted to the empty string keeps its (empty) line.
C4_ListDropsNullOnly ==
    (Converted /\ input_value.kind = "list" /\ input_value.items # <<>>)
    => ListResultIs(KeptParts(LAMBDA q : q # NoneV))

C4_Witness ==
    /\ pc = "converted"
    /\ input_value.kind = "list"
    /\ parts = <<StrV(<<"a">>), StrV(<<>>)>>
    /\ outcome.val = StrV(<<"a", "\n">>)

(* C5 *)

C6_Original_RenderingNeverAborts ==
    (Converted /\ IsPayloadRecord) => (outcome.err = "none" /\ outcome.val.tag = "str")

(* C7 *)

\* C7: on a null input convert_to_string raises ValueError, on an input of an
\* unrecognised type it raises TypeError and nothing else, whatever the options;
\* in both cases no dispatch branch ran and neither safe_convert nor
\* send_message was called.
C7_ValidationBeforeDispatch ==
    (Converted /\ input_value.kind \in {"None", "Other"})
    => /\ input_value.kind = "None" => outcome.err = "ValueError"
       /\ input_value.kind = "Other" => outcome.err = "TypeError"
       /\ outcome.branch = "none"
       /\ outcome.conv = 0
       /\ persist_calls = 0
       /\ pc \in {"converted", "raised"}

C7_Witness ==
    /\ pc = "raised"
    /\ input_value.kind = "Other"
    /\ outcome.err = "TypeError"
    /\ opts.should_store_message
    /\ opts.session_id # ""

(* C8 *)

\* the entity the build populates: the one handed to send_message when it was
\* called, else the one message names
Populated == IF persist_calls > 0 THEN persist_arg.id ELSE message

\* C8: with a Message input the entity the build populates is the input entity
\* itself, its text overwritten in place; with any other input it is an entity
\* that did not exist before the call, and the input is left as it was.
C8_MessageInputReused ==
    message # 0 =>
        IF input_value.kind = "Message"
        THEN /\ Populated = InputEntity
             /\ ~heap[FreshEntity].exists
             /\ (pc \in {"bound", "identified", "populated", "awaiting"}
                    => heap[InputEntity].text = text)
             /\ (pc = "done" /\ persist_calls = 0 => returned = InputEntity)
        ELSE /\ Populated # InputEntity
             /\ ~InitialHeap(input_value)[Populated].exists
             /\ heap[InputEntity] = InputEntityBefore
             /\ stream_pos = 0

C8_Witness ==
    /\ pc = "done"
    /\ input_value.kind = "Message"
    /\ returned = InputEntity
    /\ InputEntityBefore.text = StrV(<<"a", " ">>)
    /\ heap[InputEntity].text = StrV(<<"a">>)

(* C9 *)

\* C9: for a Generator input convert_to_string returns that stream itself and
\* pulls no chunk from it: the stream's position is what it was.
C9_StreamPassedThrough ==
    (Converted /\ input_value.kind = "Generator")
    => /\ outcome.err = "none"
       /\ outcome.val = StreamV
       /\ outcome.pulled = 0
       /\ stream_pos = 0
       /\ (pc \notin {"converted", "raised"} => text = StreamV)

C9_Witness ==
    /\ pc = "converted"
    /\ input_value.kind = "Generator"
    /\ outcome.val = StreamV
    /\ stream_pos = 0

(* C10 *)

\* the fields the options and the upstream properties give the entity
CarriesAllFields(e) ==
    /\ e.exists
    /\ e.text = outcome.val
    /\ e.sender = opts.sender
    /\ e.sender_name = opts.sender_name
    /\ e.session_id = opts.session_id
    /\ e.flow_id = (IF opts.has_graph THEN "flow1" ELSE "")
    /\ e.source.id = opts.properties.source_id
    /\ e.source.display_name = opts.properties.display_name
    /\ (e.source.source = "") = (opts.properties.source = "none")
    /\ e.icon = (IF opts.chat_icon = "" THEN opts.properties.icon ELSE opts.chat_icon)
    /\ e.background_color = opts.background_color
    /\ e.text_color = opts.text_color

\* C10: in a build, no field is assigned before the normalisation has completed,
\* send_message is called at most once and only once all the fields are
\* assigned, so the entity it is handed carries them all, and the entity it
\* returned is returned by the build with no field changed.
C10_BuildOrder ==
    /\ assigned # {} => (outcome.branch # "none" /\ outcome.err = "none")
    /\ persist_calls <= 1
    /\ persist_calls = 1 =>
          /\ assigned = AllFields
          /\ CarriesAllFields(persist_arg.fields)
    /\ (pc = "done" /\ persist_calls = 1) =>
          /\ returned = persist_result.id
          /\ heap[returned] = persist_result.fields
          /\ CarriesAllFields(heap[returned])

C10_Witness ==
    /\ pc = "done"
    /\ persist_calls = 1
    /\ persist_result.id = StoredEntity
    /\ opts.chat_icon = "bot"
    /\ heap[returned].icon = "bot"

====
